---- MODULE Spec2Model ----
(***************************************************************************)
(* Model of the auto-move command of shinydir                              *)
(* (src/src/commands/automove.rs): the executor loop of `execute`, which   *)
(* walks the plan returned by automove.run() and creates directories,      *)
(* checks for overwrites and renames files, followed by the display loop   *)
(* and print_entries.                                                      *)
(*                                                                         *)
(* A path is a sequence of components, a component a sequence of           *)
(* characters; the root "/" is the empty sequence.  The filesystem maps    *)
(* every path below the root to "none", "file" or "dir".  Output streams   *)
(* are sequences of characters and words, "\n" ending each line.           *)
(* Presentation settings are fixed to color = false, unicode = false and   *)
(* rules have no custom_name; the script warning of lines 21-35 writes to  *)
(* stderr only and is left out.                                            *)
(***************************************************************************)
EXTENDS Integers, Sequences, FiniteSets, TLC

VARIABLES
    pc,         \* position in execute: "setup", "run", "move", "display", "done"
    ret,        \* value returned by execute: "none" while running, "Ok", "Err"
    fs,         \* the filesystem
    dry_run,    \* parameter dry_run
    list,       \* parameter list
    results,    \* `results`: the plan, mutated in place by the executor loop
    ri,         \* index of the rule the current loop is at
    ei,         \* index of the entry the executor loop is at
    first_it,   \* `first_it` of the display loop
    stdout,     \* standard output
    stderr,     \* standard error
    calls,      \* history: the filesystem calls made, in order
    faults,     \* history: the I/O error the environment raised at each entry
    fs0,        \* history: the filesystem when execute was called
    plan0       \* history: the plan as returned by automove.run()

vars == <<pc, ret, fs, dry_run, list, results, ri, ei, first_it, stdout,
          stderr, calls, faults, fs0, plan0>>

----------------------------------------------------------------------------
(* Bounds of the model *)

MaxRules == 2       \* rules in a plan
MaxEntries == 2     \* entries in a plan, over all its rules

\* The paths of the model: "/s" and "/d" below the root, each with the
\* entries "x" and "y z"
Root == <<>>
TopPaths == {<< <<"s">> >>, << <<"d">> >>}
LeafPaths == {<< <<"s">>, <<"x">> >>, << <<"s">>, <<"y", " ", "z">> >>,
              << <<"d">>, <<"x">> >>, << <<"d">>, <<"y", " ", "z">> >>}
Paths == TopPaths \cup LeafPaths
\* Option::None of Path::parent: no path has an empty component
None == <<<<>>>>

\* I/O errors the environment can raise besides those the filesystem state
\* determines (permissions, read-only or cross-device mounts)
Faults == {"none", "mkdir", "exists", "rename"}

----------------------------------------------------------------------------
(* Paths and the filesystem calls of the executor loop *)

IsPrefix(p, q) == Len(p) <= Len(q) /\ SubSeq(q, 1, Len(p)) = p

\* Path::parent
parent(p) == IF p = Root THEN None ELSE SubSeq(p, 1, Len(p) - 1)

Kind(f, p) == IF p = Root THEN "dir" ELSE IF p \in Paths THEN f[p] ELSE "none"

\* some proper ancestor of p is not a directory that can be traversed
BlockedBelowFile(f, p) ==
    \E k \in 1..(Len(p) - 1) : Kind(f, SubSeq(p, 1, k)) = "file"

\* fs::create_dir_all(p): every missing ancestor of p and p itself become
\* directories.  It fails when one of them is a file, or on an I/O error of
\* mkdir; a directory that is there already is reported by is_dir, whatever
\* mkdir answered.
create_dir_all(f, p, fault) ==
    IF Kind(f, p) = "dir" THEN [ok |-> TRUE, fs |-> f]
    ELSE IF fault = "mkdir" THEN [ok |-> FALSE, fs |-> f]
    ELSE IF \E k \in 1..Len(p) : Kind(f, SubSeq(p, 1, k)) = "file"
         THEN [ok |-> FALSE, fs |-> f]
    ELSE [ok |-> TRUE,
          fs |-> [q \in Paths |-> IF IsPrefix(q, p) THEN "dir" ELSE f[q]]]

\* Path::try_exists: "true", "false", or "err" when the metadata call fails
\* with anything but NotFound: a file on the way to p, or an I/O error such
\* as a parent directory that cannot be searched
try_exists(f, p, fault) ==
    IF BlockedBelowFile(f, p) THEN "err"
    ELSE IF fault = "exists" /\ parent(p) # Root /\ Kind(f, parent(p)) = "dir"
         THEN "err"
    ELSE IF Kind(f, p) # "none" THEN "true"
    ELSE "false"

\* fs::rename(from, to): moves `from` and what is below it to `to`,
\* replacing a file (or an empty directory) that is at `to`
rename(f, from, to, fault) ==
    LET src == Kind(f, from)
        dst == Kind(f, to)
        fail == \/ fault = "rename"
                \/ src = "none"
                \/ Kind(f, parent(to)) # "dir"
                \/ (from # to /\ IsPrefix(from, to))
                \/ (dst # "none" /\ dst # src)
                \/ (dst = "dir" /\ \E q \in Paths :
                        q # to /\ IsPrefix(to, q) /\ f[q] # "none")
        moved(q) == from \o SubSeq(q, Len(to) + 1, Len(q))
    IN  IF fail THEN [ok |-> FALSE, fs |-> f]
        ELSE IF from = to THEN [ok |-> TRUE, fs |-> f]
        ELSE [ok |-> TRUE,
              fs |-> [q \in Paths |->
                        IF IsPrefix(to, q) THEN Kind(f, moved(q))
                        ELSE IF IsPrefix(from, q) THEN "none"
                        ELSE f[q]]]

----------------------------------------------------------------------------
(* Strings *)

\* [T]::join
RECURSIVE Join(_, _)
Join(ss, sep) ==
    IF ss = <<>> THEN <<>>
    ELSE IF Len(ss) = 1 THEN ss[1]
    ELSE ss[1] \o sep \o Join(Tail(ss), sep)

\* Path::to_string_lossy of an absolute path
to_string_lossy(p) == <<"/">> \o Join(p, <<"/">>)

\* println! and eprintln!
println(s) == s \o <<"\n">>

\* str::replace(" ", "\\ ")
RECURSIVE EscapeSpaces(_)
EscapeSpaces(s) ==
    IF s = <<>> THEN <<>>
    ELSE (IF Head(s) = " " THEN <<"\\", " ">> ELSE <<Head(s)>>)
         \o EscapeSpaces(Tail(s))

----------------------------------------------------------------------------
(* Entries and errors *)

OkEntry(file, move_to) == [ok |-> TRUE, file |-> file, move_to |-> move_to]
ErrEntry(kind, msg) == [ok |-> FALSE, kind |-> kind, msg |-> msg]

ResolutionError(file) ==
    ErrEntry("Resolution", <<"Couldn't resolve ">> \o to_string_lossy(file))
DirCreateError(dir) ==
    ErrEntry("DirCreate",
             <<"Couldn't create directory ">> \o to_string_lossy(dir)
                 \o <<": ", "io error">>)
OverwriteError(move_to) ==
    ErrEntry("Overwrite",
             <<"Moving to ">> \o to_string_lossy(move_to)
                 \o <<" would overwrite a file">>)
MoveError(file, move_to) ==
    ErrEntry("Move",
             <<"Couldn't move ">> \o to_string_lossy(file) \o <<" to ">>
                 \o to_string_lossy(move_to) \o <<": ", "io error">>)
CheckError(move_to) ==
    ErrEntry("Check",
             <<"Cannot check overwrite status for ">>
                 \o to_string_lossy(move_to) \o <<": ", "io error">>)

\* a filesystem call of the entry at index `at`: `existed` tells whether
\* `path` was there before the call; `from` is the source of a rename
Call(op, at, from, path, ok, existed) ==
    [op |-> op, at |-> at, from |-> from, path |-> path, ok |-> ok,
     existed |-> existed]

\* ProcessEntry with one slip `v` made in it
ProcessEntryVariant(f, e, at, dry, fault, v) ==
    IF ~e.ok
    THEN (IF v = "errs"
          THEN [res |-> CheckError(Root), fs |-> f,
                calls |-> <<Call("try_exists", at, None, Root, FALSE, FALSE)>>]
          ELSE [res |-> e, fs |-> f, calls |-> <<>>])
    ELSE
    LET par == parent(e.move_to)
        doMk == (v = "drymk" \/ ~dry) /\ par # None
        mk == IF doMk THEN create_dir_all(f, par, fault)
              ELSE [ok |-> TRUE, fs |-> f]
        mkCalls == IF doMk
                   THEN <<Call("create_dir_all", at, None, par, mk.ok,
                               Kind(f, par) # "none")>>
                   ELSE <<>>
        ex0 == try_exists(mk.fs, e.move_to, fault)
        ex == IF v = "nocheck" /\ ex0 = "true" THEN "false" ELSE ex0
        exCalls == <<Call("try_exists", at, None, e.move_to, ex0 # "err",
                          ex0 = "true")>>
        rn == rename(mk.fs, e.file, e.move_to, fault)
        rnCall == Call("rename", at, e.file, e.move_to, rn.ok,
                       Kind(mk.fs, e.move_to) # "none")
        rnCalls == IF v = "retry" /\ ~rn.ok THEN <<rnCall, rnCall>>
                   ELSE <<rnCall>>
    IN  IF ~mk.ok /\ v # "nogate"
        THEN [res |-> DirCreateError(par), fs |-> mk.fs, calls |-> mkCalls]
        ELSE IF ex = "true"
        THEN [res |-> OverwriteError(e.move_to), fs |-> mk.fs,
              calls |-> mkCalls \o exCalls]
        ELSE IF ex = "err"
        THEN [res |-> CheckError(e.move_to), fs |-> mk.fs,
              calls |-> mkCalls \o exCalls]
        ELSE IF dry
        THEN [res |-> e, fs |-> mk.fs, calls |-> mkCalls \o exCalls]
        ELSE [res |-> IF rn.ok \/ v = "silent" THEN e
                      ELSE MoveError(e.file, e.move_to),
              fs |-> rn.fs, calls |-> mkCalls \o exCalls \o rnCalls]

\* the existence check does not stop the move
ProcessEntry_NoCheck(f, e, at, dry, fault) ==
    ProcessEntryVariant(f, e, at, dry, fault, "nocheck")
\* an entry that is already an error is checked again
ProcessEntry_Errs(f, e, at, dry, fault) ==
    ProcessEntryVariant(f, e, at, dry, fault, "errs")
\* a failed directory creation does not stop the iteration
ProcessEntry_NoGate(f, e, at, dry, fault) ==
    ProcessEntryVariant(f, e, at, dry, fault, "nogate")
\* a failed rename is not recorded
ProcessEntry_Silent(f, e, at, dry, fault) ==
    ProcessEntryVariant(f, e, at, dry, fault, "silent")
\* a failed rename is tried again
ProcessEntry_Retry(f, e, at, dry, fault) ==
    ProcessEntryVariant(f, e, at, dry, fault, "retry")
\* directories are created in a dry run as well
ProcessEntry_DryMkdir(f, e, at, dry, fault) ==
    ProcessEntryVariant(f, e, at, dry, fault, "drymk")


\* One iteration of the inner loop (lines 61-105) on entry `e` at index
\* `at`: the entry's new value, the filesystem afterwards, the calls made
ProcessEntry(f, e, at, dry, fault) ==
    IF ~e.ok THEN [res |-> e, fs |-> f, calls |-> <<>>]
    ELSE
    LET par == parent(e.move_to)
        doMk == ~dry /\ par # None
        mk == IF doMk THEN create_dir_all(f, par, fault)
              ELSE [ok |-> TRUE, fs |-> f]
        mkCalls == IF doMk
                   THEN <<Call("create_dir_all", at, None, par, mk.ok, Kind(f, par) # "none")>>
                   ELSE <<>>
        ex == try_exists(mk.fs, e.move_to, fault)
        exCalls == <<Call("try_exists", at, None, e.move_to, ex # "err", ex = "true")>>
        rn == rename(mk.fs, e.file, e.move_to, fault)
        rnCalls == <<Call("rename", at, e.file, e.move_to, rn.ok,
                          Kind(mk.fs, e.move_to) # "none")>>
    IN  IF ~mk.ok
        THEN [res |-> DirCreateError(par), fs |-> mk.fs, calls |-> mkCalls]
        ELSE IF ex = "true"
        THEN [res |-> OverwriteError(e.move_to), fs |-> mk.fs,
              calls |-> mkCalls \o exCalls]
        ELSE IF ex = "err"
        THEN [res |-> CheckError(e.move_to), fs |-> mk.fs,
              calls |-> mkCalls \o exCalls]
        ELSE IF dry
        THEN [res |-> e, fs |-> mk.fs, calls |-> mkCalls \o exCalls]
        ELSE [res |-> IF rn.ok THEN e ELSE MoveError(e.file, e.move_to),
              fs |-> rn.fs, calls |-> mkCalls \o exCalls \o rnCalls]

\* The executor loop (lines 59-107) as a function of the filesystem, the
\* plan, dry_run and the I/O errors `flt` raised per entry
RECURSIVE ExecEntries(_, _, _, _, _, _)
ExecEntries(f, entries, r, k, dry, flt) ==
    IF k > Len(entries) THEN [fs |-> f, entries |-> entries]
    ELSE LET o == ProcessEntry(f, entries[k], <<r, k>>, dry, flt[<<r, k>>])
         IN  ExecEntries(o.fs, [entries EXCEPT ![k] = o.res], r, k + 1, dry, flt)

RECURSIVE ExecRules(_, _, _, _, _)
ExecRules(f, plan, r, dry, flt) ==
    IF r > Len(plan) THEN [fs |-> f, results |-> plan]
    ELSE IF plan[r].tag # "Ok" THEN ExecRules(f, plan, r + 1, dry, flt)
    ELSE LET o == ExecEntries(f, plan[r].entries, r, 1, dry, flt)
         IN  ExecRules(o.fs, [plan EXCEPT ![r].entries = o.entries],
                       r + 1, dry, flt)

----------------------------------------------------------------------------
(* The plan returned by automove.run() *)

RuleOk(dir, entries) ==
    [tag |-> "Ok", rule |-> [directory |-> dir], entries |-> entries]
RuleDirDoesNotExist(dir) ==
    [tag |-> "DirDoesNotExist", rule |-> [directory |-> dir], entries |-> <<>>]

\* what the misplaced file `file` can resolve to
EntrySet(file) ==
    {OkEntry(file, to) : to \in Paths \ {file}} \cup {ResolutionError(file)}

\* the sequences of at most n distinct elements of S
DistinctSeqs(S, n) ==
    UNION {{q \in [1..k -> S] : \A a, b \in 1..k : a # b => q[a] # q[b]}
           : k \in 0..n}

\* what the misplaced files q, in this order, can resolve to
RECURSIVE Resolutions(_)
Resolutions(q) ==
    IF q = <<>> THEN {<<>>}
    ELSE {<<e>> \o rest : e \in EntrySet(Head(q)), rest \in Resolutions(Tail(q))}

\* the entries of a rule on `dir`, at most n: the scanner yields each
\* misplaced file of the directory once
RuleEntries(f, dir, n) ==
    LET files == {p \in LeafPaths : parent(p) = dir /\ f[p] # "none"}
    IN  UNION {Resolutions(q) : q \in DistinctSeqs(files, n)}

\* the outcomes of one rule, with at most n entries
RuleOutcomes(f, n) ==
    UNION {IF f[dir] = "dir"
           THEN {RuleOk(dir, es) : es \in RuleEntries(f, dir, n)}
           ELSE IF f[dir] = "none" THEN {RuleDirDoesNotExist(dir)}
           ELSE {} : dir \in TopPaths}

\* the plans of k rules with at most n entries in all
RECURSIVE PlansOf(_, _, _)
PlansOf(f, k, n) ==
    IF k = 0 THEN {<<>>}
    ELSE UNION {{<<r>> \o rest : rest \in PlansOf(f, k - 1, n - Len(r.entries))}
                : r \in RuleOutcomes(f, n)}

Plans(f) == UNION {PlansOf(f, k, MaxEntries) : k \in 1..MaxRules}

Idx == (1..MaxRules) \X (1..MaxEntries)

----------------------------------------------------------------------------
(* Display *)

IsOk(e) == e.ok
IsErr(e) == ~e.ok

display_name(rule) == to_string_lossy(rule.directory)

CharCode(c) ==
    CASE c = " " -> 32 [] c = "d" -> 100 [] c = "s" -> 115
      [] c = "x" -> 120 [] c = "y" -> 121 [] c = "z" -> 122

\* Ord of OsStr: bytewise, lexicographic
RECURSIVE StrLess(_, _)
StrLess(a, b) ==
    IF b = <<>> THEN FALSE
    ELSE IF a = <<>> THEN TRUE
    ELSE IF Head(a) # Head(b) THEN CharCode(Head(a)) < CharCode(Head(b))
    ELSE StrLess(Tail(a), Tail(b))

\* Ord of Path: component by component
RECURSIVE PathLess(_, _)
PathLess(p, q) ==
    IF q = <<>> THEN FALSE
    ELSE IF p = <<>> THEN TRUE
    ELSE IF Head(p) # Head(q) THEN StrLess(Head(p), Head(q))
    ELSE PathLess(Tail(p), Tail(q))

\* Vec::sort followed by Vec::dedup: the distinct elements, ascending
RECURSIVE SortDedup(_)
SortDedup(S) ==
    IF S = {} THEN <<>>
    ELSE LET m == CHOOSE x \in S : \A y \in S \ {x} : PathLess(x, y)
         IN  <<m>> \o SortDedup(S \ {m})

\* path.strip_prefix(base).unwrap_or(path), as a string
StripPrefixString(path, base) ==
    IF IsPrefix(base, path)
    THEN Join(SubSeq(path, Len(base) + 1, Len(path)), <<"/">>)
    ELSE to_string_lossy(path)

\* the lines of --list for one rule (lines 133-143)
line_entries(entries) ==
    LET oks == SelectSeq(entries, IsOk)
    IN  [i \in 1..Len(oks) |->
            EscapeSpaces(to_string_lossy(oks[i].file)) \o <<" ">>
                \o EscapeSpaces(to_string_lossy(oks[i].move_to))]

\* the error messages of a rule's entries, one line each
ErrLines(entries) ==
    LET errs == SelectSeq(entries, IsErr)
    IN  Join([i \in 1..Len(errs) |-> println(errs[i].msg)], <<>>)

\* print_entries with color = false, unicode = false: what it writes to
\* stdout and to stderr
print_entries(rule, entries) ==
    LET valid_entries == Len(SelectSeq(entries, IsOk))
        errors == Len(SelectSeq(entries, IsErr))
        info == (IF valid_entries > 0
                 THEN <<<<ToString(valid_entries), " files moved">>>>
                 ELSE <<>>)
                \o (IF errors > 0
                    THEN <<<<ToString(errors), " errors">>>> ELSE <<>>)
        summary == println(display_name(rule) \o <<" ", "-", " ">>
                               \o Join(info, <<", ">>))
        withParent == SelectSeq(SelectSeq(entries, IsOk),
                                LAMBDA e : parent(e.move_to) # None)
        moved_to_dirs_no_dedup ==
            [i \in 1..Len(withParent) |-> parent(withParent[i].move_to)]
        moved_to_dirs ==
            SortDedup({moved_to_dirs_no_dedup[i] :
                          i \in 1..Len(moved_to_dirs_no_dedup)})
        tmp == [i \in 1..Len(moved_to_dirs) |->
                   StripPrefixString(moved_to_dirs[i], rule.directory)
                     \o <<" ", ToString(Len(SelectSeq(moved_to_dirs_no_dedup,
                                    LAMBDA d : d = moved_to_dirs[i])))>>]
    IN  IF entries = <<>>
        THEN [out |-> println(display_name(rule) \o <<" ", "OK">>),
              err |-> <<>>]
        ELSE IF moved_to_dirs = <<>>
        THEN [out |-> summary, err |-> ErrLines(entries)]
        ELSE [out |-> summary \o println(<<"=>", " Moved To: ">>
                                             \o Join(tmp, <<", ">>)),
              err |-> ErrLines(entries)]

\* DisplayResult separating the rules by a blank line with --list as well
DisplayResult_BlankLines(result, first, lst) ==
    LET sep == IF ~first THEN println(<<>>) ELSE <<>>
        body == IF result.tag = "DirDoesNotExist"
                THEN <<>>
                ELSE IF lst
                THEN (IF line_entries(result.entries) # <<>>
                      THEN println(Join(line_entries(result.entries),
                                        <<"\n">>))
                      ELSE <<>>)
                ELSE print_entries(result.rule, result.entries).out
    IN  [out |-> sep \o body, err |-> <<>>]

\* One iteration of the display loop (lines 111-153)
DisplayResult(result, first, lst) ==
    LET sep == IF ~first /\ ~lst THEN println(<<>>) ELSE <<>>
        body == IF result.tag = "DirDoesNotExist"
                THEN (IF ~lst
                      THEN [out |-> <<>>,
                            err |-> println(display_name(result.rule)
                                       \o <<": Directory does not exist!">>)]
                      ELSE [out |-> <<>>, err |-> <<>>])
                ELSE IF lst
                THEN [out |-> IF line_entries(result.entries) # <<>>
                              THEN println(Join(line_entries(result.entries),
                                                <<"\n">>))
                              ELSE <<>>,
                      err |-> <<>>]
                ELSE print_entries(result.rule, result.entries)
    IN  [out |-> sep \o body.out, err |-> body.err]

----------------------------------------------------------------------------
(* execute *)

\* the filesystems execute can start in: what is below a directory only,
\* the entries of the scanned directories being files
InitFs ==
    {f \in [Paths -> {"none", "file", "dir"}] :
        \A p \in LeafPaths : /\ f[p] # "dir"
                             /\ f[p] # "none" => f[parent(p)] = "dir"}

Init ==
    /\ pc = "setup"
    /\ ret = "none"
    /\ fs \in InitFs
    /\ fs0 = fs
    /\ dry_run \in BOOLEAN
    /\ list \in BOOLEAN
    /\ results = <<>>
    /\ plan0 = <<>>
    /\ ri = 1
    /\ ei = 1
    /\ first_it = TRUE
    /\ stdout = <<>>
    /\ stderr = <<>>
    /\ calls = <<>>
    /\ faults = [i \in Idx |-> "none"]

\* lines 17-18: canonicalizing the target or building the rules fails and
\* `?` returns the error
SetupFails ==
    /\ pc = "setup"
    /\ pc' = "done"
    /\ ret' = "Err"
    /\ UNCHANGED <<fs, dry_run, list, results, ri, ei, first_it, stdout,
                   stderr, calls, faults, fs0, plan0>>

\* lines 17-48: setup succeeds; the dry-run notice goes to stderr
Setup ==
    /\ pc = "setup"
    /\ pc' = "run"
    /\ stderr' = IF dry_run
                 THEN stderr \o println(<<"Info! Auto-move running in dry mode, no files will actually be moved.">>)
                 ELSE stderr
    /\ UNCHANGED <<ret, fs, dry_run, list, results, ri, ei, first_it, stdout,
                   calls, faults, fs0, plan0>>

\* lines 51-56: automove.run() returns the plan
Run ==
    /\ pc = "run"
    /\ \E plan \in Plans(fs) :
          /\ results' = plan
          /\ plan0' = plan
    /\ stderr' = IF dry_run /\ ~list THEN stderr \o println(<<>>) ELSE stderr
    /\ pc' = "move"
    /\ ri' = 1
    /\ ei' = 1
    /\ UNCHANGED <<ret, fs, dry_run, list, first_it, stdout, calls, faults,
                   fs0>>

InMove == pc = "move" /\ ri <= Len(results)

\* line 60: a rule whose directory does not exist has no entries to move
MoveSkipRule ==
    /\ InMove
    /\ results[ri].tag # "Ok"
    /\ ri' = ri + 1
    /\ ei' = 1
    /\ UNCHANGED <<pc, ret, fs, dry_run, list, results, first_it, stdout,
                   stderr, calls, faults, fs0, plan0>>

\* MoveEntry leaving the rule at the first entry that fails
MoveEntry_Break ==
    /\ InMove
    /\ results[ri].tag = "Ok"
    /\ ei <= Len(results[ri].entries)
    /\ \E fault \in Faults :
          LET e == results[ri].entries[ei]
              o == ProcessEntry(fs, e, <<ri, ei>>, dry_run, fault)
          IN  /\ fault = "none"
                    \/ o # ProcessEntry(fs, e, <<ri, ei>>, dry_run, "none")
              /\ results' = [results EXCEPT ![ri].entries[ei] = o.res]
              /\ fs' = o.fs
              /\ calls' = calls \o o.calls
              /\ faults' = [faults EXCEPT ![<<ri, ei>>] = fault]
              /\ ei' = IF e.ok /\ ~o.res.ok
                       THEN Len(results[ri].entries) + 1 ELSE ei + 1
    /\ UNCHANGED <<pc, ret, dry_run, list, ri, first_it, stdout, stderr, fs0,
                   plan0>>

\* lines 61-105: one entry; the environment may raise an I/O error in one
\* of the calls the iteration makes
MoveEntry ==
    /\ InMove
    /\ results[ri].tag = "Ok"
    /\ ei <= Len(results[ri].entries)
    /\ \E fault \in Faults :
          LET e == results[ri].entries[ei]
              o == ProcessEntry(fs, e, <<ri, ei>>, dry_run, fault)
          IN  /\ fault = "none"
                    \/ o # ProcessEntry(fs, e, <<ri, ei>>, dry_run, "none")
              /\ results' = [results EXCEPT ![ri].entries[ei] = o.res]
              /\ fs' = o.fs
              /\ calls' = calls \o o.calls
              /\ faults' = [faults EXCEPT ![<<ri, ei>>] = fault]
    /\ ei' = ei + 1
    /\ UNCHANGED <<pc, ret, dry_run, list, ri, first_it, stdout, stderr, fs0,
                   plan0>>

\* line 61: the entries of the rule are exhausted
MoveNextRule ==
    /\ InMove
    /\ results[ri].tag = "Ok"
    /\ ei > Len(results[ri].entries)
    /\ ri' = ri + 1
    /\ ei' = 1
    /\ UNCHANGED <<pc, ret, fs, dry_run, list, results, first_it, stdout,
                   stderr, calls, faults, fs0, plan0>>

\* line 107: the rules are exhausted
MoveEnd ==
    /\ pc = "move"
    /\ ri > Len(results)
    /\ pc' = "display"
    /\ ri' = 1
    /\ first_it' = TRUE
    /\ UNCHANGED <<ret, fs, dry_run, list, results, ei, stdout, stderr, calls,
                   faults, fs0, plan0>>

\* lines 111-153: one rule of the display loop
Display ==
    /\ pc = "display"
    /\ ri <= Len(results)
    /\ LET o == DisplayResult(results[ri], first_it, list)
       IN  /\ stdout' = stdout \o o.out
           /\ stderr' = stderr \o o.err
    /\ first_it' = FALSE
    /\ ri' = ri + 1
    /\ UNCHANGED <<pc, ret, fs, dry_run, list, results, ei, calls, faults,
                   fs0, plan0>>

\* execute returning the failure of an entry
Return_PropagatesErrors ==
    /\ pc = "display"
    /\ ri > Len(results)
    /\ pc' = "done"
    /\ ret' = IF \E r \in 1..Len(results) :
                    \E k \in 1..Len(results[r].entries) :
                        ~results[r].entries[k].ok
              THEN "Err" ELSE "Ok"
    /\ UNCHANGED <<fs, dry_run, list, results, ri, ei, first_it, stdout,
                   stderr, calls, faults, fs0, plan0>>

\* line 155
Return ==
    /\ pc = "display"
    /\ ri > Len(results)
    /\ pc' = "done"
    /\ ret' = "Ok"
    /\ UNCHANGED <<fs, dry_run, list, results, ri, ei, first_it, stdout,
                   stderr, calls, faults, fs0, plan0>>

Next ==
    \/ SetupFails
    \/ Setup
    \/ Run
    \/ MoveSkipRule
    \/ MoveEntry
    \/ MoveNextRule
    \/ MoveEnd
    \/ Display
    \/ Return

Spec == Init /\ [][Next]_vars

----------------------------------------------------------------------------
(* Vocabulary of the properties *)

\* the entries of the plan, by <<rule index, entry index>>
AllIdx == {i \in Idx : /\ i[1] <= Len(plan0)
                       /\ i[2] <= Len(plan0[i[1]].entries)}
EntryOf(res, i) == res[i[1]].entries[i[2]]
Entry0(i) == EntryOf(plan0, i)
EntryNow(i) == EntryOf(results, i)

\* plan order
Before(i, j) == i[1] < j[1] \/ (i[1] = j[1] /\ i[2] < j[2])

\* the executor loop has gone past entry i
Processed(i) ==
    \/ pc = "display"
    \/ pc = "done" /\ ret = "Ok"
    \/ pc = "move" /\ Before(i, <<ri, ei>>)

LoopDone == pc = "display" \/ (pc = "done" /\ ret = "Ok")
Finished == pc = "done" /\ ret = "Ok"

CallsAt(i) == SelectSeq(calls, LAMBDA c : c.at = i)
CallsOf(i, op) == SelectSeq(calls, LAMBDA c : c.at = i /\ c.op = op)
Renamed(i) == \E k \in 1..Len(calls) :
                  calls[k].at = i /\ calls[k].op = "rename" /\ calls[k].ok

\* a step of the executor loop on the entry at <<ri, ei>>
EntryStep ==
    /\ InMove
    /\ results[ri].tag = "Ok"
    /\ ei <= Len(results[ri].entries)
    /\ <<ri, ei>>' # <<ri, ei>>
Cur == results[ri].entries[ei]
CurAfter == results'[ri].entries[ei]
NewCalls == SubSeq(calls', Len(calls) + 1, Len(calls'))
NoNewRename == \A k \in 1..Len(NewCalls) : NewCalls[k].op # "rename"

NoFault == [i \in Idx |-> "none"]

\* the results of the executor loop run from the initial filesystem on the
\* plan, with the given dry_run and I/O errors
WhatIf(dry, flt) == ExecRules(fs0, plan0, 1, dry, flt).results

----------------------------------------------------------------------------
(* C1: no accidental overwrite *)

\* C1 as stated: whenever the executor loop processes a resolved entry whose
\* move_to exists, in dry-run or real mode, it does not call fs::rename for
\* it and replaces the entry by the overwrite-conflict error.
C1_OverwriteConflictAlways ==
    [][(EntryStep /\ Cur.ok /\ Kind(fs, Cur.move_to) # "none")
          => (NoNewRename /\ CurAfter = OverwriteError(Cur.move_to))]_vars

\* C1 amended: whenever the executor loop processes a resolved entry whose
\* move_to exists, it does not call fs::rename for it, leaves the file and
\* the destination as they are, and replaces the entry by an error: the
\* overwrite-conflict error, unless an I/O error made the directory creation
\* or the existence check itself fail, in which case it is that error.  No
\* fs::rename the loop calls has an existing destination.
C1_NoAccidentalOverwrite ==
    [][(EntryStep /\ Cur.ok)
          => /\ \A k \in 1..Len(NewCalls) :
                   NewCalls[k].op = "rename" => ~NewCalls[k].existed
             /\ Kind(fs, Cur.move_to) # "none"
                   => /\ NoNewRename
                      /\ Kind(fs', Cur.move_to) = Kind(fs, Cur.move_to)
                      /\ Kind(fs', Cur.file) = Kind(fs, Cur.file)
                      /\ CurAfter \in {OverwriteError(Cur.move_to),
                                       CheckError(Cur.move_to),
                                       DirCreateError(parent(Cur.move_to))}
                      /\ faults'[<<ri, ei>>] = "none"
                            => CurAfter = OverwriteError(Cur.move_to)]_vars

\* a real run in which an entry is an overwrite conflict because an earlier
\* entry of the plan put something at its move_to
C1_Witness ==
    /\ ~dry_run
    /\ \E i \in AllIdx :
          /\ Processed(i)
          /\ Entry0(i).ok
          /\ Kind(fs0, Entry0(i).move_to) = "none"
          /\ EntryNow(i) = OverwriteError(Entry0(i).move_to)

----------------------------------------------------------------------------
(* C2: dry-run/execute parity *)

OverwriteSet(res) ==
    {i \in AllIdx : ~EntryOf(res, i).ok /\ EntryOf(res, i).kind = "Overwrite"}

\* no file is in the plan twice
DistinctFiles ==
    \A i, j \in AllIdx :
        (i # j /\ Entry0(i).ok /\ Entry0(j).ok) => Entry0(i).file # Entry0(j).file

\* C2 as stated: from the same plan and the same initial filesystem, the
\* executor loop marks the same set of entries as overwrite conflicts with
\* dry_run = true and with dry_run = false (here with no I/O error raised
\* in either run, on a plan that names no file twice).
C2_DryRunParity ==
    (Finished /\ faults = NoFault /\ DistinctFiles)
        => OverwriteSet(results) = OverwriteSet(WhatIf(~dry_run, NoFault))

----------------------------------------------------------------------------
(* C3: entry isolation *)

Overlap(p, q) == IsPrefix(p, q) \/ IsPrefix(q, p)

\* entry i shares nothing with the rest of the plan: no other entry names
\* a path that is, contains or lies within its file or its move_to, and the
\* directory it moves to is there from the start
Apart(i) ==
    /\ Kind(fs0, parent(Entry0(i).move_to)) = "dir"
    /\ \A j \in AllIdx \ {i} :
          Entry0(j).ok =>
              \A p \in {Entry0(i).file, Entry0(i).move_to},
                 q \in {Entry0(j).file, Entry0(j).move_to} : ~Overlap(p, q)

\* C3 as stated (its last part): when an I/O error makes one entry fail,
\* the outcome of every other entry is what it would have been had that
\* entry not failed (here in runs with that one I/O error only).
C3_OutcomesUnaffected ==
    Finished =>
        \A i \in AllIdx :
            (faults[i] # "none" /\ [faults EXCEPT ![i] = "none"] = NoFault) =>
                \A j \in AllIdx \ {i} :
                    EntryNow(j) =
                        EntryOf(WhatIf(dry_run, [faults EXCEPT ![i] = "none"]), j)

\* every resolved entry has been processed once, and the calls are in plan
\* order
C3_EachOnceInOrder ==
    LoopDone =>
        /\ \A i \in AllIdx :
              Entry0(i).ok =>
                  /\ Len(CallsOf(i, "try_exists")) + Len(CallsOf(i, "create_dir_all")) >= 1
                  /\ \A op \in {"create_dir_all", "try_exists", "rename"} :
                        Len(CallsOf(i, op)) <= 1
        /\ \A m, n \in 1..Len(calls) :
              m < n => ~Before(calls[n].at, calls[m].at)

\* when an I/O error made entry i fail: the entries before it are as they
\* would have been, and so are all the others in a dry run or if entry i
\* shares nothing with them
C3_OutcomesOfTheOthers ==
    Finished =>
        \A i \in AllIdx :
            faults[i] # "none" =>
                \A j \in AllIdx \ {i} :
                    (Before(j, i) \/ dry_run \/ Apart(i)) =>
                        EntryNow(j) =
                            EntryOf(WhatIf(dry_run, [faults EXCEPT ![i] = "none"]), j)

\* a step of the loop moves on to the next entry and touches no other
\* entry; a step in which the entry fails removes and replaces nothing that
\* is on the filesystem
C3_StepTouchesOneEntry ==
    EntryStep =>
        /\ ri' = ri /\ ei' = ei + 1 /\ pc' = pc
        /\ Len(results') = Len(results)
        /\ \A r \in 1..Len(results) :
              /\ Len(results'[r].entries) = Len(results[r].entries)
              /\ \A k \in 1..Len(results[r].entries) :
                    <<r, k>> # <<ri, ei>>
                        => results'[r].entries[k] = results[r].entries[k]
        /\ (Cur.ok /\ ~CurAfter.ok)
              => \A p \in Paths : fs[p] # "none" => fs'[p] = fs[p]

\* C3 amended: when the execution step of one entry fails, the loop still
\* processes each other entry exactly once, in plan order, and undoes no
\* earlier move; when the failure is an I/O error, the outcome of each entry
\* before the failing one is what it would have been without the failure,
\* and so is the outcome of each later entry in a dry run, or when the
\* failing entry's destination directory existed from the start and no
\* other entry of the plan names a path that is, contains or lies within
\* the failing entry's file or move_to.
C3_EntryIsolation ==
    /\ [](C3_EachOnceInOrder /\ C3_OutcomesOfTheOthers)
    /\ [][C3_StepTouchesOneEntry]_vars

\* a real run in which an I/O error made an entry fail that shares nothing
\* with the rest of the plan, and a later entry was moved
C3_Witness ==
    /\ Finished
    /\ ~dry_run
    /\ \E i, j \in AllIdx :
          /\ Before(i, j)
          /\ faults[i] # "none" /\ ~EntryNow(i).ok /\ Entry0(i).ok
          /\ Apart(i)
          /\ Renamed(j)

----------------------------------------------------------------------------
(* C4: a dry run leaves the filesystem unchanged *)

\* C4 as stated: in a dry run neither fs::create_dir_all nor fs::rename is
\* called and the filesystem stays as it was; an entry whose move_to does
\* not exist stays successful.
C4_DryRunMissingStaysOk ==
    dry_run =>
        /\ fs = fs0
        /\ \A k \in 1..Len(calls) : calls[k].op = "try_exists"
        /\ \A i \in AllIdx :
              (Processed(i) /\ Entry0(i).ok /\ Kind(fs0, Entry0(i).move_to) = "none")
                  => EntryNow(i) = Entry0(i)

\* C4 amended: in a dry run neither fs::create_dir_all nor fs::rename is
\* called and the filesystem stays as it was; an entry whose move_to does
\* not exist stays successful unless the existence check itself fails, in
\* which case it becomes the existence-check error.
C4_DryRunFrame ==
    dry_run =>
        /\ fs = fs0
        /\ \A k \in 1..Len(calls) : calls[k].op = "try_exists"
        /\ \A i \in AllIdx :
              (Processed(i) /\ Entry0(i).ok /\ Kind(fs0, Entry0(i).move_to) = "none")
                  => /\ Len(CallsAt(i)) = 1
                     /\ IF CallsAt(i)[1].ok
                        THEN EntryNow(i) = Entry0(i)
                        ELSE EntryNow(i) = CheckError(Entry0(i).move_to)

\* a dry run over two entries with the same free move_to under a directory
\* that does not exist: both stay successful, nothing is created
C4_Witness ==
    /\ dry_run
    /\ Finished
    /\ \E i, j \in AllIdx :
          /\ i # j
          /\ EntryNow(i).ok /\ EntryNow(j).ok
          /\ EntryNow(i).move_to = EntryNow(j).move_to
          /\ Kind(fs, parent(EntryNow(i).move_to)) = "none"

----------------------------------------------------------------------------
(* C5: the states of an entry *)

LastCall(i) == CallsAt(i)[Len(CallsAt(i))]

\* each call is made at most once per entry, and a failed call is the last
\* call of its entry
NoSecondTimeNoRetry(i) ==
    /\ \A op \in {"create_dir_all", "try_exists", "rename"} :
          Len(CallsOf(i, op)) <= 1
    /\ \A k \in 1..(Len(CallsAt(i)) - 1) : CallsAt(i)[k].ok

\* C5 as stated: a resolved entry leaves the executor loop as Moved (still
\* Ok), OverwriteConflict, DirCreateFailed or MoveFailed, is not processed a
\* second time, and no step is retried after an error.
C5_FourTerminalStates ==
    \A i \in AllIdx :
        (Processed(i) /\ Entry0(i).ok) =>
            /\ \/ EntryNow(i) = Entry0(i)
               \/ EntryNow(i) \in {OverwriteError(Entry0(i).move_to),
                                   DirCreateError(parent(Entry0(i).move_to)),
                                   MoveError(Entry0(i).file, Entry0(i).move_to)}
            /\ NoSecondTimeNoRetry(i)

\* C5 amended: a resolved entry leaves the executor loop in exactly one of
\* five terminal states, decided by the last call made for it: still Ok (no
\* call failed and move_to was free), OverwriteConflict, DirCreateFailed,
\* MoveFailed, or CheckFailed when the existence check itself fails; it is
\* not processed a second time and no step is retried after an error.
C5_TerminalStates ==
    \A i \in AllIdx :
        (Processed(i) /\ Entry0(i).ok) =>
            /\ CallsAt(i) # <<>>
            /\ NoSecondTimeNoRetry(i)
            /\ EntryNow(i) =
                 (CASE LastCall(i).op = "create_dir_all" /\ ~LastCall(i).ok
                         -> DirCreateError(parent(Entry0(i).move_to))
                    [] LastCall(i).op = "try_exists" /\ ~LastCall(i).ok
                         -> CheckError(Entry0(i).move_to)
                    [] LastCall(i).op = "try_exists" /\ LastCall(i).ok
                          /\ LastCall(i).existed
                         -> OverwriteError(Entry0(i).move_to)
                    [] LastCall(i).op = "rename" /\ ~LastCall(i).ok
                         -> MoveError(Entry0(i).file, Entry0(i).move_to)
                    [] OTHER -> Entry0(i))
            /\ (EntryNow(i) = Entry0(i))
                  => LastCall(i).op = (IF dry_run THEN "try_exists" ELSE "rename")

\* a run that left one entry in the existence-check error and another one,
\* in real mode, in the move error
C5_Witness ==
    /\ Finished
    /\ \E i, j \in AllIdx :
          /\ Entry0(i).ok /\ EntryNow(i) = CheckError(Entry0(i).move_to)
          /\ Entry0(j).ok
          /\ EntryNow(j) = MoveError(Entry0(j).file, Entry0(j).move_to)

----------------------------------------------------------------------------
(* C6: list-mode purity *)

RECURSIVE ListedEntries(_, _)
ListedEntries(entries, k) ==
    IF k = 0 THEN <<>>
    ELSE ListedEntries(entries, k - 1)
         \o (IF entries[k].ok
             THEN EscapeSpaces(to_string_lossy(entries[k].file)) \o <<" ">>
                  \o EscapeSpaces(to_string_lossy(entries[k].move_to))
                  \o <<"\n">>
             ELSE <<>>)

\* what --list has written after the first r rules: a line per successful
\* entry
RECURSIVE Listed(_, _)
Listed(res, r) ==
    IF r = 0 THEN <<>>
    ELSE Listed(res, r - 1)
         \o (IF res[r].tag = "Ok"
             THEN ListedEntries(res[r].entries, Len(res[r].entries))
             ELSE <<>>)

\* a line holds the two paths and the one space between them that is not
\* escaped
Unescaped(out) ==
    {k \in 1..Len(out) : out[k] = " " /\ (k = 1 \/ out[k - 1] # "\\")}
NewLines(out) == {k \in 1..Len(out) : out[k] = "\n"}

\* C6: with list = true, standard output holds exactly one line
\* "<file> <move_to>", spaces escaped, per successful entry, in rule order
\* and then entry order, and nothing else: nothing for an entry that is an
\* error or for a rule whose directory does not exist, no header, no blank
\* line between rules.
C6_ListModePurity ==
    list =>
        /\ (pc \in {"setup", "run", "move"} \/ ret = "Err") => stdout = <<>>
        /\ LoopDone =>
              /\ stdout = Listed(results, ri - 1)
              /\ Cardinality(NewLines(stdout)) = Cardinality(Unescaped(stdout))
              /\ Finished =>
                    Cardinality(NewLines(stdout)) =
                        Cardinality({i \in AllIdx : EntryNow(i).ok})

\* a --list run over two rules, with a successful entry whose file name has
\* a space, an entry that is an error and a rule that has no line at all
C6_Witness ==
    /\ list
    /\ Finished
    /\ Len(results) = 2
    /\ Cardinality(NewLines(stdout)) = 1
    /\ \E k \in 1..Len(stdout) : stdout[k] = "\\"
    /\ \E i \in AllIdx : ~EntryNow(i).ok
    /\ \E r \in 1..2 : results[r].tag = "DirDoesNotExist" \/ results[r].entries = <<>>

----------------------------------------------------------------------------
(* C7: resolution failures pass through the executor unchanged *)

\* C7: an entry that is an error when the executor loop reaches it gets no
\* filesystem call and keeps its error value; what changes on the
\* filesystem is the file, the move_to or a directory above the move_to of
\* a resolved entry only.
C7_ResolutionErrorsPassThrough ==
    /\ \A i \in AllIdx :
          ~Entry0(i).ok => (EntryNow(i) = Entry0(i) /\ CallsAt(i) = <<>>)
    /\ \A k \in 1..Len(calls) :
          /\ calls[k].at \in AllIdx
          /\ Entry0(calls[k].at).ok
    /\ \A p \in Paths :
          fs[p] # fs0[p] =>
              \E i \in AllIdx :
                  /\ Entry0(i).ok
                  /\ p = Entry0(i).file \/ IsPrefix(p, Entry0(i).move_to)

\* a real run over a plan of one resolution error followed by one resolved
\* entry: the error is as it was and the resolved entry's file is moved
C7_Witness ==
    /\ Finished
    /\ ~dry_run
    /\ Cardinality(AllIdx) = 2
    /\ \E i, j \in AllIdx :
          /\ Before(i, j)
          /\ ~Entry0(i).ok /\ EntryNow(i).kind = "Resolution"
          /\ Renamed(j)
          /\ fs[Entry0(j).file] = "none" /\ fs[Entry0(j).move_to] = "file"

----------------------------------------------------------------------------
(* C8: directory creation precedes the existence check and gates the move *)

C8_CallsOfAnEntry ==
    ~dry_run =>
        \A i \in AllIdx :
            (Processed(i) /\ Entry0(i).ok) =>
                LET cs == CallsAt(i)
                IN  /\ Len(cs) >= 1
                    /\ cs[1].op = "create_dir_all"
                    /\ cs[1].path = parent(Entry0(i).move_to)
                    /\ IF cs[1].ok
                       THEN Len(cs) >= 2 /\ cs[2].op = "try_exists"
                       ELSE /\ Len(cs) = 1
                            /\ EntryNow(i) =
                                 DirCreateError(parent(Entry0(i).move_to))

C8_LoopGoesOn ==
    (EntryStep /\ Cur.ok /\ ~CurAfter.ok)
        => (pc' = "move" /\ ri' = ri /\ ei' = ei + 1)

\* C8: in real mode the creation of the parent directory of move_to is the
\* first call made for a resolved entry, before the existence check; when
\* it fails the entry becomes the directory-creation error, no existence
\* check and no rename is made for it, and the loop goes on with the next
\* entry.
C8_DirCreationFirstAndGates ==
    []C8_CallsOfAnEntry /\ [][C8_LoopGoesOn]_vars

\* a real run in which the directory creation failed for an entry, and the
\* entry after it was processed
C8_Witness ==
    /\ ~dry_run
    /\ \E i, j \in AllIdx :
          /\ Before(i, j)
          /\ Processed(j)
          /\ Entry0(i).ok /\ Entry0(j).ok
          /\ EntryNow(i) = DirCreateError(parent(Entry0(i).move_to))
          /\ CallsAt(j) # <<>>

----------------------------------------------------------------------------
(* C9: best-effort exit status *)

EntryErrors == {i \in AllIdx : ~EntryNow(i).ok}
MissingRules == {r \in 1..Len(results) : results[r].tag = "DirDoesNotExist"}

\* C9: execute returns an error only before any rule is evaluated; once
\* automove.run() has built the plan it returns Ok(()), whatever the rules
\* with a missing directory and the entries that failed.
C9_BestEffortExit ==
    /\ ret = "Err" => /\ pc = "done"
                      /\ plan0 = <<>> /\ results = <<>>
                      /\ calls = <<>> /\ stdout = <<>> /\ fs = fs0
    /\ pc = "done" => ret \in {"Ok", "Err"}
    /\ (pc = "done" /\ plan0 # <<>>) => ret = "Ok"
    /\ pc # "done" => ret = "none"

\* execute has returned Ok(()) on a plan with a rule whose directory is
\* missing and an entry that failed in the executor loop
C9_Witness ==
    /\ pc = "done"
    /\ ret = "Ok"
    /\ MissingRules # {}
    /\ \E i \in EntryErrors : Entry0(i).ok

----------------------------------------------------------------------------
(* C10: reported success equals actual moves *)

RenamesOk(i) ==
    SelectSeq(calls, LAMBDA c : /\ c.at = i /\ c.op = "rename" /\ c.ok
                                /\ c.from = Entry0(i).file
                                /\ c.path = Entry0(i).move_to)

\* the numbers print_entries has put before " files moved"
PrintedCounts ==
    LET at == SelectSeq([k \in 1..Len(stdout) |-> k],
                        LAMBDA k : stdout[k] = " files moved")
    IN  [n \in 1..Len(at) |-> stdout[at[n] - 1]]

\* the numbers of successful renames of the first r rules, those that are
\* not zero
RenameCounts(r) ==
    LET n == [q \in 1..r |->
                 Cardinality({k \in 1..Len(calls) :
                     /\ calls[k].at[1] = q
                     /\ calls[k].op = "rename" /\ calls[k].ok})]
        some == SelectSeq([q \in 1..r |-> q], LAMBDA q : n[q] > 0)
    IN  [m \in 1..Len(some) |-> ToString(n[some[m]])]

SamePlanShape ==
    /\ Len(results) = Len(plan0)
    /\ \A r \in 1..Len(plan0) :
          /\ results[r].tag = plan0[r].tag
          /\ results[r].rule = plan0[r].rule
          /\ Len(results[r].entries) = Len(plan0[r].entries)

\* C10: in real mode an entry the loop has processed is Ok if and only if
\* fs::rename(file, move_to) was called once for it and succeeded, and an
\* entry that is an error had no successful rename; the "N files moved" of
\* each rule is the number of its renames; an error never becomes a success
\* and the rules and entries of the plan are neither added, removed nor
\* reordered.
C10_SuccessEqualsMoves ==
    ~dry_run =>
        /\ SamePlanShape
        /\ \A i \in AllIdx :
              /\ Len(CallsOf(i, "rename")) <= 1
              /\ Processed(i) => (EntryNow(i).ok <=> Len(RenamesOk(i)) = 1)
              /\ ~EntryNow(i).ok => Len(RenamesOk(i)) = 0
              /\ EntryNow(i).ok => EntryNow(i) = Entry0(i)
        /\ (LoopDone /\ ~list) => PrintedCounts = RenameCounts(ri - 1)

\* a real run has printed the summaries of two rules: in one a file was
\* moved, in the other a rename failed
C10_Witness ==
    /\ ~dry_run
    /\ ~list
    /\ Finished
    /\ Len(PrintedCounts) = 1
    /\ \E i, j \in AllIdx :
          /\ i[1] # j[1]
          /\ Renamed(i)
          /\ Entry0(j).ok
          /\ EntryNow(j) = MoveError(Entry0(j).file, Entry0(j).move_to)

====
